---- MODULE Spec2Model ----
(***************************************************************************)
(* Model of cx_Freeze/darwintools.py: DarwinFile, MachOReference,          *)
(* DarwinFileTracker, changeLoadReference and applyAdHocSignature.         *)
(*                                                                         *)
(* A path is the sequence of its components; an absolute path starts with  *)
(* the component "/".  A raw load/rpath token is the sequence obtained by  *)
(* splitting the string at "/", so "@rpath/libC.dylib" is                  *)
(* <<"@rpath", "libC.dylib">>.  None is NoPath for an Optional[Path] and   *)
(* NoFile for an Optional[DarwinFile].  DarwinFile objects live in the     *)
(* heap `files` and are named by their index in it.                        *)
(*                                                                         *)
(* Not part of the state: DarwinFile._build_path and                       *)
(* DarwinFileTracker._reference_cache, which no call modelled here reads,  *)
(* and DarwinFile.commands, loadCommands, rpathCommands and                *)
(* libraryPathResolution, which are fixed by the file's path once          *)
(* __init__ has run and are given as operators on the file.                *)
(***************************************************************************)
EXTENDS Integers, Sequences, FiniteSets, TLC

\* Bound on the number of DarwinFile objects constructed in one freeze.
MaxFiles == 3

\* the largest number of load commands of a file of the file system below
MaxRefs == 3

NoPath == <<>>
NoFile == 0

Last(s) == s[Len(s)]
Front(s) == SubSeq(s, 1, Len(s) - 1)

(***************************************************************************)
(* The build host's file system.                                           *)
(***************************************************************************)
Dirs ==
  { <<"/">>, <<"/", "app">>, <<"/", "app", "lib">>, <<"/", "opt">> }

MachOFiles ==
  { <<"/", "app", "main">>,
    <<"/", "app", "lib", "libB.dylib">>,
    <<"/", "app", "lib", "libC.dylib">>,
    <<"/", "opt", "libC.dylib">>,
    <<"/", "opt", "libD.dylib">>,
    <<"/", "opt", "libfoo.1.dylib">> }

PlainFiles == { <<"/", "app", "data.txt">> }

\* symbolic links (path of the link, path it points to); there is no loop
Links == { << <<"/", "opt", "libfoo.dylib">>, <<"/", "opt", "libfoo.1.dylib">> >> }

IsLink(p) == \E l \in Links : l[1] = p
LinkTarget(p) == (CHOOSE l \in Links : l[1] = p)[2]

\* Path.resolve(): follow every symbolic link and fold ".." components
RECURSIVE ResolveFrom(_, _)
ResolveFrom(done, rest) ==
  IF rest = <<>> THEN done
  ELSE LET c == Head(rest)
           nxt == IF c = ".."
                  THEN (IF Len(done) > 1 THEN Front(done) ELSE done)
                  ELSE Append(done, c)
       IN IF IsLink(nxt)
          THEN ResolveFrom(<<>>, LinkTarget(nxt) \o Tail(rest))
          ELSE ResolveFrom(nxt, Tail(rest))

Resolve(p) == ResolveFrom(<<>>, p)

\* Path.exists(), Path.is_file(), Path.is_absolute(), Path.name, Path.parent
Exists(p) == Resolve(p) \in Dirs \cup MachOFiles \cup PlainFiles
IsFile(p) == Resolve(p) \in MachOFiles \cup PlainFiles
IsAbsolute(p) == Len(p) > 0 /\ p[1] = "/"
Name(p) == IF Len(p) = 0 \/ p = <<"/">> THEN "" ELSE Last(p)
Parent(p) == IF Len(p) > 1 THEN Front(p) ELSE p

\* file(1) does not follow a symbolic link: it reports the link itself
FileOutputHasMachO(p) ==
  LET q == Append(Resolve(Parent(p)), Last(p))
  IN ~IsLink(q) /\ q \in MachOFiles

isMachOFile(p) == IF ~IsFile(p) THEN FALSE ELSE FileOutputHasMachO(p)

(***************************************************************************)
(* otool -l: the load commands of each Mach-O file, in command order.      *)
(***************************************************************************)
LoadDylib(tok) == [cmd |-> "LC_LOAD_DYLIB", path |-> tok]
RPathCmd(tok) == [cmd |-> "LC_RPATH", path |-> tok]
OtherCmd == [cmd |-> "LC_SEGMENT_64", path |-> NoPath]

getMachOCommands(p) ==
  CASE p = <<"/", "app", "main">> ->
         << OtherCmd,
            RPathCmd(<<"@loader_path", "lib">>),
            RPathCmd(<<"/", "app", "data.txt">>),
            RPathCmd(<<"/", "nowhere">>),
            RPathCmd(<<"/", "opt">>),
            LoadDylib(<<"@rpath", "libB.dylib">>),
            LoadDylib(<<"@rpath", "libD.dylib">>),
            LoadDylib(<<"/", "usr", "lib", "libSystem.B.dylib">>) >>
    [] p = <<"/", "app", "lib", "libB.dylib">> ->
         << RPathCmd(<<"@loader_path", "..">>),
            LoadDylib(<<"@rpath", "libC.dylib">>),
            LoadDylib(<<"/", "opt", "libfoo.dylib">>) >>
    [] p = <<"/", "opt", "libfoo.1.dylib">> ->
         << OtherCmd, LoadDylib(<<"/", "opt", "libC.dylib">>) >>
    [] p = <<"/", "opt", "libD.dylib">> ->
         << RPathCmd(<<"/", "opt">>),
            RPathCmd(<<"@loader_path", "..", "app", "lib">>),
            LoadDylib(<<"@rpath", "libC.dylib">>),
            LoadDylib(<<"@loader_path", "libC.dylib">>),
            OtherCmd,
            LoadDylib(<<"@rpath", "libC.dylib">>) >>
    [] OTHER -> << OtherCmd >>

RECURSIVE SelectCmds(_, _)
SelectCmds(cmds, kind) ==
  IF cmds = <<>> THEN <<>>
  ELSE IF Head(cmds).cmd = kind
       THEN <<Head(cmds).path>> \o SelectCmds(Tail(cmds), kind)
       ELSE SelectCmds(Tail(cmds), kind)

(***************************************************************************)
(* MachOReference                                                          *)
(***************************************************************************)
\* MachOReference.__init__; `key` is the dictionary key the owning
\* DarwinFile stores the reference under.
MachOReference(dict_path, raw_path, resolved_path) ==
  [ key |-> dict_path,
    raw_path |-> raw_path,
    resolved_path |-> resolved_path,
    is_copied |-> FALSE,
    target_file |-> NoFile ]

isResolved(reference) == reference.resolved_path # NoPath

setTargetFile(reference, darwin_file) ==
  [reference EXCEPT !.target_file = darwin_file, !.is_copied = TRUE]

(***************************************************************************)
(* DarwinFile                                                              *)
(***************************************************************************)
Join(a, b) == IF IsAbsolute(b) THEN b ELSE a \o b

isExecutablePath(tok) == Len(tok) > 0 /\ tok[1] = "@executable_path"
isLoaderPath(tok) == Len(tok) > 0 /\ tok[1] = "@loader_path"
isRPath(tok) == Len(tok) > 0 /\ tok[1] = "@rpath"

\* str.replace(prefix + "/", "", 1) on a token that starts with prefix
StripPrefix(tok) == IF Len(tok) > 1 THEN Tail(tok) ELSE tok

resolveLoader(self, tok) == Join(Parent(self.path), StripPrefix(tok))
resolveExecutable(self, tok) == Join(Parent(self.path), StripPrefix(tok))

\* DarwinFile.loadCommands and DarwinFile.rpathCommands: the raw paths of
\* the LC_LOAD_DYLIB and of the LC_RPATH commands of a Mach-O file; they are
\* set once in __init__ from the file's path and empty for any other file
loadCommands(self) ==
  IF self.isMachO
  THEN SelectCmds(getMachOCommands(self.path), "LC_LOAD_DYLIB") ELSE <<>>
rpathCommands(self) ==
  IF self.isMachO
  THEN SelectCmds(getMachOCommands(self.path), "LC_RPATH") ELSE <<>>

\* the entries a file contributes from its own LC_RPATH commands
RECURSIVE OwnRPath(_, _)
OwnRPath(self, raw_paths) ==
  IF raw_paths = <<>> THEN <<>>
  ELSE LET rp == Head(raw_paths)
           entry == IF IsAbsolute(rp) THEN <<rp>>
                    ELSE IF isLoaderPath(rp)
                         THEN <<Resolve(resolveLoader(self, rp))>>
                    ELSE IF isExecutablePath(rp)
                         THEN <<Resolve(resolveExecutable(self, rp))>>
                    ELSE <<>>
       IN SelectSeq(entry, Exists) \o OwnRPath(self, Tail(raw_paths))

\* a getRPath that extends the list it has cached instead of returning it
RECURSIVE getRPathExtending(_, _)
getRPathExtending(fs, n) ==
  LET own == OwnRPath(fs[n], rpathCommands(fs[n]))
      up == IF fs[n].referencing_file # NoFile
            THEN getRPathExtending(fs, fs[n].referencing_file)
            ELSE [files |-> fs, rpath |-> <<>>]
      rpath == IF fs[n].rpath.computed
               THEN fs[n].rpath.dirs \o own
               ELSE up.rpath \o own
  IN [files |-> [up.files EXCEPT ![n].rpath =
                    [computed |-> TRUE, dirs |-> rpath]],
      rpath |-> rpath]

\* a getRPath that puts the file's own entries before its referrer's
RECURSIVE getRPathSelfFirst(_, _)
getRPathSelfFirst(fs, n) ==
  IF fs[n].rpath.computed
  THEN [files |-> fs, rpath |-> fs[n].rpath.dirs]
  ELSE LET own == OwnRPath(fs[n], rpathCommands(fs[n]))
           up == IF fs[n].referencing_file # NoFile
                 THEN getRPathSelfFirst(fs, fs[n].referencing_file)
                 ELSE [files |-> fs, rpath |-> <<>>]
           rpath == own \o up.rpath
       IN [files |-> [up.files EXCEPT ![n].rpath =
                         [computed |-> TRUE, dirs |-> rpath]],
           rpath |-> rpath]

\* DarwinFile.getRPath on object n of heap fs: the heap afterwards (the
\* result is cached in n and in every referrer it was computed for) and the
\* list returned.
RECURSIVE getRPath(_, _)
getRPath(fs, n) ==
  IF fs[n].rpath.computed
  THEN [files |-> fs, rpath |-> fs[n].rpath.dirs]
  ELSE LET own == OwnRPath(fs[n], rpathCommands(fs[n]))
           up == IF fs[n].referencing_file # NoFile
                 THEN getRPath(fs, fs[n].referencing_file)
                 ELSE [files |-> fs, rpath |-> <<>>]
           rpath == up.rpath \o own
       IN [files |-> [up.files EXCEPT ![n].rpath =
                         [computed |-> TRUE, dirs |-> rpath]],
           rpath |-> rpath]

\* a resolveRPath that never raises
RECURSIVE resolveRPathLenient(_, _, _)
resolveRPathLenient(rpath, strict, tok) ==
  IF rpath = <<>>
  THEN [exc |-> "none", path |-> NoPath]
  ELSE LET test_path == Join(Head(rpath), StripPrefix(tok))
       IN IF isMachOFile(test_path)
          THEN [exc |-> "none", path |-> test_path]
          ELSE resolveRPathLenient(Tail(rpath), strict, tok)

\* a resolveRPath that searches the rpath from its last directory
RECURSIVE resolveRPathLast(_, _, _)
resolveRPathLast(rpath, strict, tok) ==
  IF rpath = <<>>
  THEN IF ~strict
       THEN [exc |-> "none", path |-> NoPath]
       ELSE [exc |-> "resolveRPath() failed to resolve path", path |-> NoPath]
  ELSE LET test_path == Join(Last(rpath), StripPrefix(tok))
       IN IF isMachOFile(test_path)
          THEN [exc |-> "none", path |-> test_path]
          ELSE resolveRPathLast(Front(rpath), strict, tok)

\* DarwinFile.resolveRPath, given the rpath in effect: [exc, path]
RECURSIVE resolveRPath(_, _, _)
resolveRPath(rpath, strict, tok) ==
  IF rpath = <<>>
  THEN IF ~strict
       THEN [exc |-> "none", path |-> NoPath]
       ELSE [exc |-> "resolveRPath() failed to resolve path", path |-> NoPath]
  ELSE LET test_path == Join(Head(rpath), StripPrefix(tok))
       IN IF isMachOFile(test_path)
          THEN [exc |-> "none", path |-> test_path]
          ELSE resolveRPath(Tail(rpath), strict, tok)

\* a resolvePath that leaves an absolute token unresolved when nothing
\* exists at it
resolvePathExisting(self, tok) ==
  IF isLoaderPath(tok)
  THEN [exc |-> "none", path |-> resolveLoader(self, tok)]
  ELSE IF isExecutablePath(tok)
  THEN [exc |-> "none", path |-> resolveExecutable(self, tok)]
  ELSE IF isRPath(tok)
  THEN resolveRPath(self.rpath.dirs, self.strict, tok)
  ELSE IF IsAbsolute(tok)
  THEN [exc |-> "none", path |-> IF Exists(tok) THEN tok ELSE NoPath]
  ELSE IF isMachOFile(Join(Parent(self.path), tok))
  THEN [exc |-> "none", path |-> Resolve(Join(Parent(self.path), tok))]
  ELSE [exc |-> "Could not resolve path", path |-> NoPath]

\* DarwinFile.resolvePath: [exc, path]
resolvePath(self, tok) ==
  IF isLoaderPath(tok)
  THEN [exc |-> "none", path |-> resolveLoader(self, tok)]
  ELSE IF isExecutablePath(tok)
  THEN [exc |-> "none", path |-> resolveExecutable(self, tok)]
  ELSE IF isRPath(tok)
  THEN resolveRPath(self.rpath.dirs, self.strict, tok)
  ELSE IF IsAbsolute(tok)
  THEN [exc |-> "none", path |-> tok]
  ELSE IF isMachOFile(Join(Parent(self.path), tok))
  THEN [exc |-> "none", path |-> Resolve(Join(Parent(self.path), tok))]
  ELSE [exc |-> "Could not resolve path", path |-> NoPath]

\* dict[raw] = resolved on an insertion-ordered dictionary
DictSet(d, raw, resolved) ==
  IF \E i \in 1..Len(d) : d[i].raw = raw
  THEN [i \in 1..Len(d) |->
          IF d[i].raw = raw THEN [raw |-> raw, resolved |-> resolved] ELSE d[i]]
  ELSE Append(d, [raw |-> raw, resolved |-> resolved])

\* DarwinFile.resolveLibraryPaths: [exc, dict]
RECURSIVE resolveLibraryPaths(_, _, _)
resolveLibraryPaths(self, loads, dict) ==
  IF loads = <<>> THEN [exc |-> "none", dict |-> dict]
  ELSE LET r == resolvePath(self, Head(loads))
       IN IF r.exc # "none" THEN [exc |-> r.exc, dict |-> dict]
          ELSE resolveLibraryPaths(self, Tail(loads),
                                   DictSet(dict, Head(loads), r.path))

\* a loop that stores a reference over one already under the same key
RECURSIVE makeReferencesOverwriting(_, _)
makeReferencesOverwriting(resolution, refs) ==
  IF resolution = <<>> THEN [exc |-> "none", refs |-> refs]
  ELSE LET raw_path == Head(resolution).raw
           resolved_path == Head(resolution).resolved
           dict_path == IF resolved_path = NoPath THEN raw_path
                        ELSE resolved_path
           reference == MachOReference(dict_path, raw_path, resolved_path)
       IN IF \E i \in 1..Len(refs) : refs[i].key = dict_path
          THEN makeReferencesOverwriting(Tail(resolution),
                 [i \in 1..Len(refs) |->
                    IF refs[i].key = dict_path THEN reference ELSE refs[i]])
          ELSE makeReferencesOverwriting(Tail(resolution),
                 Append(refs, reference))

\* the loop of DarwinFile.__init__ that creates the MachOReference objects
RECURSIVE makeReferences(_, _)
makeReferences(resolution, refs) ==
  IF resolution = <<>> THEN [exc |-> "none", refs |-> refs]
  ELSE LET raw_path == Head(resolution).raw
           resolved_path == Head(resolution).resolved
           dict_path == IF resolved_path = NoPath THEN raw_path
                        ELSE resolved_path
       IN IF \E i \in 1..Len(refs) : refs[i].key = dict_path
          THEN [exc |-> "Multiple dynamic libraries resolved to the same file.",
                refs |-> refs]
          ELSE makeReferences(Tail(resolution),
                 Append(refs, MachOReference(dict_path, raw_path, resolved_path)))

\* DarwinFile.__init__(path, referencing_file, strict) on heap fs:
\* [exc, files]; when exc = "none" the new object is the last of files,
\* otherwise no object is created (a referrer may still have cached its
\* rpath).
DarwinFile(fs, path, referencing_file, strict) ==
  LET p == Resolve(path)
      blank == [ path |-> p,
                 referencing_file |-> NoFile,
                 strict |-> strict,
                 isMachO |-> FALSE,
                 rpath |-> [computed |-> FALSE, dirs |-> <<>>],
                 machOReferenceForTargetPath |-> <<>> ]
  IN IF ~isMachOFile(p)
     THEN [exc |-> "none", files |-> Append(fs, blank)]
     ELSE
       LET n == Len(fs) + 1
           self0 == [blank EXCEPT
                       !.isMachO = TRUE,
                       !.referencing_file = referencing_file]
           g == getRPath(Append(fs, self0), n)
           self1 == g.files[n]
           lib == resolveLibraryPaths(self1, loadCommands(self1), <<>>)
           mk == makeReferences(lib.dict, <<>>)
       IN IF lib.exc # "none"
          THEN [exc |-> lib.exc, files |-> Front(g.files)]
          ELSE IF mk.exc # "none"
          THEN [exc |-> mk.exc, files |-> Front(g.files)]
          ELSE [exc |-> "none",
                files |-> [g.files EXCEPT
                             ![n].machOReferenceForTargetPath = mk.refs]]

\* DarwinFile.getDependentFilePaths
getDependentFilePaths(self) ==
  { self.machOReferenceForTargetPath[i].resolved_path :
      i \in { j \in 1..Len(self.machOReferenceForTargetPath) :
                isResolved(self.machOReferenceForTargetPath[j]) } }

\* DarwinFile.getMachOReferenceForPath: the position of the reference stored
\* under `path`, 0 when the lookup raises DarwinException
getMachOReferenceForPath(self, path) ==
  IF \E i \in 1..Len(self.machOReferenceForTargetPath) :
        self.machOReferenceForTargetPath[i].key = path
  THEN CHOOSE i \in 1..Len(self.machOReferenceForTargetPath) :
         self.machOReferenceForTargetPath[i].key = path
  ELSE 0

(***************************************************************************)
(* DarwinFileTracker                                                       *)
(***************************************************************************)
VARIABLES
  files,                        \* heap of the DarwinFile objects constructed
  copied_file_list,             \* DarwinFileTracker._copied_file_list
  darwin_file_for_build_path,   \* DarwinFileTracker._darwin_file_for_build_path
  darwin_file_for_source_path,  \* DarwinFileTracker._darwin_file_for_source_path
  strict,                       \* the strict flag of this freeze
  host,                         \* the build host's machine and the file the
                                \* rewriter and the signer work on
  last                          \* the last call: its arguments, result,
                                \* warning and exception, and the references
                                \* finalizeReferences bound

vars == << files, copied_file_list, darwin_file_for_build_path,
           darwin_file_for_source_path, strict, host, last >>

\* paths a driver presents as sources
SourcePaths ==
  { <<"/", "app", "lib", "libB.dylib">>,
    <<"/", "app", "lib", "libC.dylib">>,
    <<"/", "opt", "libC.dylib">>,
    <<"/", "opt", "libfoo.dylib">>,
    <<"/", "opt", "libfoo.1.dylib">> }

\* paths in the build directory a driver copies to
TargetPaths ==
  { <<"/", "build", "main">>,
    <<"/", "build", "lib", "one.dylib">>,
    <<"/", "build", "lib", "two.dylib">> }

\* the copied paths a driver asks getDarwinFile about (copied paths are
\* interchangeable: no call looks inside one)
ContestedPaths == { <<"/", "build", "lib", "one.dylib">> }

NoCall ==
  [ op |-> "init", exc |-> "none", warned |-> FALSE, ret |-> NoFile,
    source_path |-> NoPath, target_path |-> NoPath, file |-> NoFile,
    bound |-> {}, dirs |-> <<>>, tools |-> <<>>, seen |-> <<>> ]

\* a build host, and on it the copied file the rewriter and the signer work
\* on: platform.machine(), the file's permission bits (0o644), its inode,
\* whether it carries a valid signature, and the load reference it stores
NoHost ==
  [ machine |-> "x86_64", mode |-> 420, inode |-> 1, signed |-> FALSE,
    reference |-> "@rpath/libC.dylib" ]

Init ==
  /\ files = <<>>
  /\ copied_file_list = <<>>
  /\ darwin_file_for_build_path = <<>>
  /\ darwin_file_for_source_path = <<>>
  /\ strict \in BOOLEAN
  /\ host = NoHost
  /\ last = NoCall

\* dict.setdefault(k, v): an entry already present is kept
PutIfAbsent(dict, k, v) ==
  [x \in DOMAIN dict \cup {k} |-> IF x \in DOMAIN dict THEN dict[x] ELSE v]

\* dict[k] = v
Put(dict, k, v) == [x \in DOMAIN dict \cup {k} |-> IF x = k THEN v ELSE dict[x]]

\* a check that never finds the path
pathIsNeverCopiedTo(by_build_path, target_path) == FALSE

pathIsAlreadyCopiedTo(by_build_path, target_path) ==
  target_path \in DOMAIN by_build_path

\* the comparison inverted
sourcesSame(source_path, targetDarwinFile) ==
  Resolve(source_path) = Resolve(targetDarwinFile.path)

\* the comparison made on the path as presented, without resolve()
sourcesDifferUnresolved(source_path, targetDarwinFile) ==
  source_path # targetDarwinFile.path

\* the comparison of getDarwinFile that decides whether it warns
sourcesDiffer(source_path, targetDarwinFile) ==
  Resolve(source_path) # Resolve(targetDarwinFile.path)

\* the last copied file with the name, instead of the first
RECURSIVE findLastDarwinFileForFilename(_, _, _)
findLastDarwinFileForFilename(fs, list, filename) ==
  IF list = <<>> THEN NoFile
  ELSE IF Name(fs[Last(list)].path) = Name(filename) THEN Last(list)
  ELSE findLastDarwinFileForFilename(fs, Front(list), filename)

\* DarwinFileTracker.findDarwinFileForFilename
RECURSIVE findDarwinFileForFilename(_, _, _)
findDarwinFileForFilename(fs, list, filename) ==
  IF list = <<>> THEN NoFile
  ELSE IF Name(fs[Head(list)].path) = Name(filename) THEN Head(list)
  ELSE findDarwinFileForFilename(fs, Tail(list), filename)

\* variants of finalizeReference: (1) a reference without candidate is
\* skipped instead of raising
finalizeReferenceSkipping(fs, list, by_source_path, reference) ==
  IF reference.is_copied
  THEN [exc |-> "none", warned |-> FALSE, reference |-> reference]
  ELSE IF isResolved(reference)
  THEN LET target_path == Resolve(reference.resolved_path)
       IN [exc |-> "none", warned |-> FALSE,
           reference |->
             IF target_path \in DOMAIN by_source_path
             THEN setTargetFile(reference, by_source_path[target_path])
             ELSE reference]
  ELSE LET potential_target ==
             findDarwinFileForFilename(fs, list, reference.raw_path)
       IN IF potential_target = NoFile
          THEN [exc |-> "none", warned |-> FALSE, reference |-> reference]
          ELSE [exc |-> "none", warned |-> TRUE,
                reference |->
                  setTargetFile(
                    [reference EXCEPT
                       !.resolved_path = fs[potential_target].path],
                    potential_target)]

\* (2) a reference without candidate among the copied files is looked for
\* among all the files constructed
finalizeReferenceAnyFile(fs, list, by_source_path, reference) ==
  IF reference.is_copied
  THEN [exc |-> "none", warned |-> FALSE, reference |-> reference]
  ELSE IF isResolved(reference)
  THEN LET target_path == Resolve(reference.resolved_path)
       IN [exc |-> "none", warned |-> FALSE,
           reference |->
             IF target_path \in DOMAIN by_source_path
             THEN setTargetFile(reference, by_source_path[target_path])
             ELSE reference]
  ELSE LET potential_target ==
             findDarwinFileForFilename(fs, [n \in 1..Len(fs) |-> n],
                                       reference.raw_path)
       IN IF potential_target = NoFile
          THEN [exc |-> "finalizeReferences() failed to resolve path",
                warned |-> FALSE, reference |-> reference]
          ELSE [exc |-> "none", warned |-> TRUE,
                reference |->
                  setTargetFile(
                    [reference EXCEPT
                       !.resolved_path = fs[potential_target].path],
                    potential_target)]

\* (3) the resolved path is looked up as it is, without resolve()
finalizeReferenceNoResolve(fs, list, by_source_path, reference) ==
  IF reference.is_copied
  THEN [exc |-> "none", warned |-> FALSE, reference |-> reference]
  ELSE IF isResolved(reference)
  THEN LET target_path == reference.resolved_path
       IN [exc |-> "none", warned |-> FALSE,
           reference |->
             IF target_path \in DOMAIN by_source_path
             THEN setTargetFile(reference, by_source_path[target_path])
             ELSE reference]
  ELSE LET potential_target ==
             findDarwinFileForFilename(fs, list, reference.raw_path)
       IN IF potential_target = NoFile
          THEN [exc |-> "finalizeReferences() failed to resolve path",
                warned |-> FALSE, reference |-> reference]
          ELSE [exc |-> "none", warned |-> TRUE,
                reference |->
                  setTargetFile(
                    [reference EXCEPT
                       !.resolved_path = fs[potential_target].path],
                    potential_target)]

\* (4) the guessed target is bound without filling in resolved_path
finalizeReferenceNoPath(fs, list, by_source_path, reference) ==
  IF reference.is_copied
  THEN [exc |-> "none", warned |-> FALSE, reference |-> reference]
  ELSE IF isResolved(reference)
  THEN LET target_path == Resolve(reference.resolved_path)
       IN [exc |-> "none", warned |-> FALSE,
           reference |->
             IF target_path \in DOMAIN by_source_path
             THEN setTargetFile(reference, by_source_path[target_path])
             ELSE reference]
  ELSE LET potential_target ==
             findDarwinFileForFilename(fs, list, reference.raw_path)
       IN IF potential_target = NoFile
          THEN [exc |-> "finalizeReferences() failed to resolve path",
                warned |-> FALSE, reference |-> reference]
          ELSE [exc |-> "none", warned |-> TRUE,
                reference |-> setTargetFile(reference, potential_target)]

\* (5) a resolved reference is bound to the copied file of the same name
finalizeReferenceByName(fs, list, by_source_path, reference) ==
  IF reference.is_copied
  THEN [exc |-> "none", warned |-> FALSE, reference |-> reference]
  ELSE IF isResolved(reference)
  THEN LET target == findDarwinFileForFilename(fs, list,
                                               reference.resolved_path)
       IN [exc |-> "none", warned |-> FALSE,
           reference |->
             IF target # NoFile
             THEN setTargetFile(reference, target)
             ELSE reference]
  ELSE LET potential_target ==
             findDarwinFileForFilename(fs, list, reference.raw_path)
       IN IF potential_target = NoFile
          THEN [exc |-> "finalizeReferences() failed to resolve path",
                warned |-> FALSE, reference |-> reference]
          ELSE [exc |-> "none", warned |-> TRUE,
                reference |->
                  setTargetFile(
                    [reference EXCEPT
                       !.resolved_path = fs[potential_target].path],
                    potential_target)]

\* a body that binds the target file without marking the reference copied
finalizeReferenceUnmarked(fs, list, by_source_path, reference) ==
  IF reference.is_copied
  THEN [exc |-> "none", warned |-> FALSE, reference |-> reference]
  ELSE IF isResolved(reference)
  THEN LET target_path == Resolve(reference.resolved_path)
       IN [exc |-> "none", warned |-> FALSE,
           reference |->
             IF target_path \in DOMAIN by_source_path
             THEN [reference EXCEPT
                     !.target_file = by_source_path[target_path]]
             ELSE reference]
  ELSE LET potential_target ==
             findDarwinFileForFilename(fs, list, reference.raw_path)
       IN IF potential_target = NoFile
          THEN [exc |-> "finalizeReferences() failed to resolve path",
                warned |-> FALSE, reference |-> reference]
          ELSE [exc |-> "none", warned |-> TRUE,
                reference |->
                  [reference EXCEPT
                     !.resolved_path = fs[potential_target].path,
                     !.target_file = potential_target]]

\* a body that does not skip a reference already marked as copied
finalizeReferenceRebinding(fs, list, by_source_path, reference) ==
  IF isResolved(reference)
  THEN LET target_path == Resolve(reference.resolved_path)
       IN [exc |-> "none", warned |-> FALSE,
           reference |->
             IF target_path \in DOMAIN by_source_path
             THEN setTargetFile(reference, by_source_path[target_path])
             ELSE reference]
  ELSE LET potential_target ==
             findDarwinFileForFilename(fs, list, reference.raw_path)
       IN IF potential_target = NoFile
          THEN [exc |-> "finalizeReferences() failed to resolve path",
                warned |-> FALSE, reference |-> reference]
          ELSE [exc |-> "none", warned |-> TRUE,
                reference |->
                  setTargetFile(
                    [reference EXCEPT
                       !.resolved_path = fs[potential_target].path],
                    potential_target)]

\* the body of the loops of finalizeReferences for one reference:
\* [exc, warned, reference]
finalizeReference(fs, list, by_source_path, reference) ==
  IF reference.is_copied
  THEN [exc |-> "none", warned |-> FALSE, reference |-> reference]
  ELSE IF isResolved(reference)
  THEN LET target_path == Resolve(reference.resolved_path)
       IN [exc |-> "none", warned |-> FALSE,
           reference |->
             IF target_path \in DOMAIN by_source_path
             THEN setTargetFile(reference, by_source_path[target_path])
             ELSE reference]
  ELSE LET potential_target ==
             findDarwinFileForFilename(fs, list, reference.raw_path)
       IN IF potential_target = NoFile
          THEN [exc |-> "finalizeReferences() failed to resolve path",
                warned |-> FALSE, reference |-> reference]
          ELSE [exc |-> "none", warned |-> TRUE,
                reference |->
                  setTargetFile(
                    [reference EXCEPT
                       !.resolved_path = fs[potential_target].path],
                    potential_target)]

\* finalizeReferences from the i-th reference of the k-th copied file on:
\* [exc, warned, files]
RECURSIVE finalizeFrom(_, _, _, _, _, _)
finalizeFrom(fs, list, by_source_path, k, i, warned) ==
  IF k > Len(list) THEN [exc |-> "none", warned |-> warned, files |-> fs]
  ELSE IF i > Len(fs[list[k]].machOReferenceForTargetPath)
  THEN finalizeFrom(fs, list, by_source_path, k + 1, 1, warned)
  ELSE LET r == finalizeReference(fs, list, by_source_path,
                    fs[list[k]].machOReferenceForTargetPath[i])
       IN IF r.exc # "none"
          THEN [exc |-> r.exc, warned |-> warned, files |-> fs]
          ELSE finalizeFrom(
                 [fs EXCEPT ![list[k]].machOReferenceForTargetPath[i] =
                    r.reference],
                 list, by_source_path, k, i + 1, warned \/ r.warned)

(***************************************************************************)
(* The calls                                                               *)
(***************************************************************************)
\* DarwinFile(path, referencing_file, strict)
NewDarwinFile(path, referencing_file) ==
  /\ Len(files) < MaxFiles
  /\ LET r == DarwinFile(files, path, referencing_file, strict)
     IN /\ files' = r.files
        /\ last' = [NoCall EXCEPT !.op = "DarwinFile", !.exc = r.exc,
                      !.ret = IF r.exc = "none" THEN Len(r.files) ELSE NoFile,
                      !.source_path = path, !.file = referencing_file]
  /\ UNCHANGED << copied_file_list, darwin_file_for_build_path,
                  darwin_file_for_source_path, strict, host >>

\* a recordCopiedFile that appends to the list before it checks the path
RecordCopiedFileAppendingFirst(target_path, darwin_file) ==
  /\ copied_file_list' = Append(copied_file_list, darwin_file)
  /\ IF pathIsAlreadyCopiedTo(darwin_file_for_build_path, target_path)
     THEN /\ last' = [NoCall EXCEPT !.op = "recordCopiedFile",
                        !.exc = "addFile() called with target_path already copied to",
                        !.target_path = target_path, !.file = darwin_file]
          /\ UNCHANGED << darwin_file_for_build_path,
                          darwin_file_for_source_path >>
     ELSE /\ darwin_file_for_build_path' =
               Put(darwin_file_for_build_path, target_path, darwin_file)
          /\ darwin_file_for_source_path' =
               Put(darwin_file_for_source_path, files[darwin_file].path,
                   darwin_file)
          /\ last' = [NoCall EXCEPT !.op = "recordCopiedFile",
                        !.target_path = target_path, !.file = darwin_file]
  /\ UNCHANGED << files, strict, host >>

\* DarwinFileTracker.recordCopiedFile(target_path, darwin_file)
RecordCopiedFile(target_path, darwin_file) ==
  /\ IF pathIsAlreadyCopiedTo(darwin_file_for_build_path, target_path)
     THEN /\ last' = [NoCall EXCEPT !.op = "recordCopiedFile",
                        !.exc = "addFile() called with target_path already copied to",
                        !.target_path = target_path, !.file = darwin_file]
          /\ UNCHANGED << copied_file_list, darwin_file_for_build_path,
                          darwin_file_for_source_path >>
     ELSE /\ copied_file_list' = Append(copied_file_list, darwin_file)
          /\ darwin_file_for_build_path' =
               Put(darwin_file_for_build_path, target_path, darwin_file)
          /\ darwin_file_for_source_path' =
               Put(darwin_file_for_source_path, files[darwin_file].path,
                   darwin_file)
          /\ last' = [NoCall EXCEPT !.op = "recordCopiedFile",
                        !.target_path = target_path, !.file = darwin_file]
  /\ UNCHANGED << files, strict, host >>

\* DarwinFileTracker.getDarwinFile(source_path, target_path)
GetDarwinFile(source_path, target_path) ==
  /\ IF target_path \notin DOMAIN darwin_file_for_build_path
     THEN last' = [NoCall EXCEPT !.op = "getDarwinFile",
                     !.exc = "already copied to, but no DarwinFile object found",
                     !.source_path = source_path, !.target_path = target_path]
     ELSE LET targetDarwinFile == darwin_file_for_build_path[target_path]
          IN last' = [NoCall EXCEPT !.op = "getDarwinFile",
                        !.warned = sourcesDiffer(source_path,
                                                 files[targetDarwinFile]),
                        !.ret = targetDarwinFile,
                        !.source_path = source_path,
                        !.target_path = target_path]
  /\ UNCHANGED << files, copied_file_list, darwin_file_for_build_path,
                  darwin_file_for_source_path, strict, host >>

\* source_file.getMachOReferenceForPath(dependent).setTargetFile(darwin_file)
SetTargetFile(source_file, dependent, darwin_file) ==
  /\ LET i == getMachOReferenceForPath(files[source_file], dependent)
     IN IF i = 0
        THEN /\ last' = [NoCall EXCEPT !.op = "setTargetFile",
                           !.exc = "is not a path referenced from DarwinFile"]
             /\ UNCHANGED files
        ELSE /\ files' = [files EXCEPT
                  ![source_file].machOReferenceForTargetPath[i] =
                     setTargetFile(@, darwin_file)]
             /\ last' = [NoCall EXCEPT !.op = "setTargetFile"]
  /\ UNCHANGED << copied_file_list, darwin_file_for_build_path,
                  darwin_file_for_source_path, strict, host >>

\* the references (file, position) that are copied in heap gs and were not
\* in heap fs
NewlyBound(fs, gs) ==
  { x \in (1..Len(fs)) \X (1..MaxRefs) :
      /\ x[2] <= Len(fs[x[1]].machOReferenceForTargetPath)
      /\ ~fs[x[1]].machOReferenceForTargetPath[x[2]].is_copied
      /\ gs[x[1]].machOReferenceForTargetPath[x[2]].is_copied }

\* DarwinFileTracker.finalizeReferences()
FinalizeReferences ==
  /\ LET r == finalizeFrom(files, copied_file_list,
                           darwin_file_for_source_path, 1, 1, FALSE)
     IN /\ files' = r.files
        /\ last' = [NoCall EXCEPT !.op = "finalizeReferences",
                      !.exc = r.exc, !.warned = r.warned,
                      !.bound = NewlyBound(files, r.files)]
  /\ UNCHANGED << copied_file_list, darwin_file_for_build_path,
                  darwin_file_for_source_path, strict, host >>

(***************************************************************************)
(* The driver of a freeze.  It makes the calls above in any order, within  *)
(* this discipline: a DarwinException ends the freeze; a file constructed  *)
(* is recorded before the next one is constructed; a reference is bound    *)
(* from outside only when the driver follows a dependency, that is for a   *)
(* path of getDependentFilePaths and to a file constructed from that path. *)
(***************************************************************************)
Running == last.exc = "none"

\* the files constructed and not yet recorded
Pending ==
  { n \in 1..Len(files) :
      \A t \in DOMAIN darwin_file_for_build_path :
         darwin_file_for_build_path[t] # n }

FollowsDependency(source_file, dependent, darwin_file) ==
  /\ dependent \in getDependentFilePaths(files[source_file])
  /\ files[darwin_file].path = Resolve(dependent)

Next ==
  \/ /\ Running
     /\ Pending = {}
     /\ \E path \in SourcePaths : NewDarwinFile(path, NoFile)
  \/ /\ Running
     /\ \E target_path \in TargetPaths, darwin_file \in Pending :
          RecordCopiedFile(target_path, darwin_file)
  \/ /\ Running
     /\ \E source_path \in SourcePaths, target_path \in ContestedPaths :
          GetDarwinFile(source_path, target_path)
  \/ /\ Running
     /\ \E source_file \in 1..Len(files), dependent \in SourcePaths,
           darwin_file \in 1..Len(files) :
          /\ FollowsDependency(source_file, dependent, darwin_file)
          /\ SetTargetFile(source_file, dependent, darwin_file)
  \/ /\ Running
     /\ FinalizeReferences

Spec == Init /\ [][Next]_vars

(***************************************************************************)
(* Properties of the tracker's copy records                                *)
(***************************************************************************)
TrackerUnchanged ==
  UNCHANGED << copied_file_list, darwin_file_for_build_path,
               darwin_file_for_source_path >>

\* the step is a call of recordCopiedFile(t, d), of getDarwinFile(s, t)
IsRecordCopiedFile(t, d) ==
  last'.op = "recordCopiedFile" /\ last'.target_path = t /\ last'.file = d
IsGetDarwinFile(s, t) ==
  last'.op = "getDarwinFile" /\ last'.source_path = s /\ last'.target_path = t

\* C1: a copied (build) path has one owner for good: no call changes the
\* file a copied path is mapped to, and recordCopiedFile for a copied path
\* already recorded, with a file whose source path differs from the owner's,
\* raises DarwinException and leaves the tracker as it was.
C1_CopiedPathHasOneOwner ==
  [][ /\ \A t \in DOMAIN darwin_file_for_build_path :
           /\ t \in DOMAIN darwin_file_for_build_path'
           /\ darwin_file_for_build_path'[t] = darwin_file_for_build_path[t]
      /\ \A t \in DOMAIN darwin_file_for_build_path, d \in 1..Len(files) :
           ( /\ IsRecordCopiedFile(t, d)
             /\ files[d].path # files[darwin_file_for_build_path[t]].path )
           => /\ last'.exc = "addFile() called with target_path already copied to"
              /\ TrackerUnchanged ]_vars

\* recordCopiedFile has just raised for a copied path owned by a file with
\* another source path than the file presented
C1_Witness ==
  /\ last.op = "recordCopiedFile"
  /\ last.exc # "none"
  /\ last.target_path \in DOMAIN darwin_file_for_build_path
  /\ files[last.file].path #
       files[darwin_file_for_build_path[last.target_path]].path

\* C2: getDarwinFile(src2, dst), when dst holds a file whose source differs
\* from src2 after symlink resolution, warns, returns the file that holds
\* dst and changes neither the copied-file list nor the two indices.
C2_ConflictKeepsFirst ==
  [][ \A s \in SourcePaths, t \in DOMAIN darwin_file_for_build_path :
        ( /\ IsGetDarwinFile(s, t)
          /\ Resolve(s) # Resolve(files[darwin_file_for_build_path[t]].path) )
        => /\ last'.exc = "none"
           /\ last'.warned
           /\ last'.ret = darwin_file_for_build_path[t]
           /\ TrackerUnchanged ]_vars

\* getDarwinFile has just answered for a copied path held by another source
C2_Witness ==
  /\ last.op = "getDarwinFile"
  /\ last.target_path \in DOMAIN darwin_file_for_build_path
  /\ Resolve(last.source_path) #
       files[darwin_file_for_build_path[last.target_path]].path
  /\ last.ret = darwin_file_for_build_path[last.target_path]
  /\ last.warned

\* C3: getDarwinFile(src, dst), when dst holds the file recorded from src,
\* returns that same file without a warning and changes neither the
\* copied-file list nor the two indices nor any file.
C3_SamePresentationIdempotent ==
  [][ \A s \in SourcePaths, t \in DOMAIN darwin_file_for_build_path :
        ( /\ IsGetDarwinFile(s, t)
          /\ Resolve(s) = files[darwin_file_for_build_path[t]].path )
        => /\ last'.exc = "none"
           /\ ~last'.warned
           /\ last'.ret = darwin_file_for_build_path[t]
           /\ TrackerUnchanged
           /\ UNCHANGED files ]_vars

\* the source, presented as a symbolic link, was presented again for the
\* copied path it is recorded under
C3_Witness ==
  /\ last.op = "getDarwinFile"
  /\ last.target_path \in DOMAIN darwin_file_for_build_path
  /\ IsLink(last.source_path)
  /\ Resolve(last.source_path) =
       files[darwin_file_for_build_path[last.target_path]].path
  /\ last.ret = darwin_file_for_build_path[last.target_path]
  /\ ~last.warned

\* a source path already recorded is presented, in file d, for the copied
\* path t that is free
SecondCopyOfSource(t, d) ==
  /\ IsRecordCopiedFile(t, d)
  /\ t \notin DOMAIN darwin_file_for_build_path
  /\ files[d].path \in DOMAIN darwin_file_for_source_path
  /\ darwin_file_for_source_path[files[d].path] # d

\* C4 as claimed: the second copy of a source is refused with a warning, the
\* list holds only the first file of that source and the source-path index
\* still maps the source to the first file.
C4_SecondCopyRefused ==
  [][ \A t \in TargetPaths, d \in 1..Len(files) :
        SecondCopyOfSource(t, d)
        => /\ last'.warned
           /\ copied_file_list' = copied_file_list
           /\ darwin_file_for_source_path'[files[d].path] =
                darwin_file_for_source_path[files[d].path] ]_vars

\* C4 (amended): the second copy of a source to a free copied path is
\* accepted without a warning: the file is appended to the list after the
\* first one, the copied path is mapped to it, the first file keeps its own
\* copied path, and the source-path index maps the source to the second file.
C4_SecondCopyRecorded ==
  [][ \A t \in TargetPaths, d \in 1..Len(files) :
        SecondCopyOfSource(t, d)
        => /\ last'.exc = "none"
           /\ ~last'.warned
           /\ copied_file_list' = Append(copied_file_list, d)
           /\ darwin_file_for_build_path'[t] = d
           /\ \A u \in DOMAIN darwin_file_for_build_path :
                darwin_file_for_build_path'[u] = darwin_file_for_build_path[u]
           /\ darwin_file_for_source_path'[files[d].path] = d ]_vars

\* two files of one source are recorded under two copied paths, and the
\* source-path index gives the second
C4_Witness ==
  /\ last.op = "recordCopiedFile"
  /\ last.exc = "none"
  /\ \E i, j \in 1..Len(copied_file_list) :
       /\ i < j
       /\ copied_file_list[i] # copied_file_list[j]
       /\ files[copied_file_list[i]].path = files[copied_file_list[j]].path
       /\ last.file = copied_file_list[j]
       /\ darwin_file_for_build_path[last.target_path] = copied_file_list[j]
       /\ darwin_file_for_source_path[files[copied_file_list[j]].path] =
            copied_file_list[j]

(***************************************************************************)
(* Properties of finalizeReferences                                        *)
(***************************************************************************)
\* the references of the copied files, as pairs (file, position)
CopiedRefs ==
  { x \in (1..Len(files)) \X (1..MaxRefs) :
      /\ \E k \in 1..Len(copied_file_list) : copied_file_list[k] = x[1]
      /\ x[2] <= Len(files[x[1]].machOReferenceForTargetPath) }

Ref(x) == files[x[1]].machOReferenceForTargetPath[x[2]]

\* the positions in the copied-file list of the files named as the token
Candidates(raw_path) ==
  { k \in 1..Len(copied_file_list) :
      Name(files[copied_file_list[k]].path) = Name(raw_path) }

FirstCandidate(raw_path) ==
  copied_file_list[CHOOSE k \in Candidates(raw_path) :
                     \A j \in Candidates(raw_path) : k <= j]

\* C5: once finalizeReferences has returned normally, every reference of
\* every copied file is bound (is_copied with a target file) or resolved to
\* a host path; none is both unresolved and unbound.
C5_FinalizedBoundOrExternal ==
  (last.op = "finalizeReferences" /\ last.exc = "none")
  => \A x \in CopiedRefs :
       \/ Ref(x).is_copied /\ Ref(x).target_file # NoFile
       \/ ~Ref(x).is_copied /\ Ref(x).resolved_path # NoPath

\* finalizeReferences returned normally and left a copied file with one
\* reference it bound by guessing and one kept external
C5_Witness ==
  /\ last.op = "finalizeReferences"
  /\ last.exc = "none"
  /\ \E x, y \in CopiedRefs :
       /\ x[1] = y[1]
       /\ x \in last.bound /\ isRPath(Ref(x).raw_path)
       /\ ~Ref(y).is_copied /\ Ref(y).resolved_path # NoPath

\* some copied file has an unresolved, unbound reference named as no copied
\* file
Unrecoverable ==
  \E x \in CopiedRefs :
    /\ ~Ref(x).is_copied
    /\ Ref(x).resolved_path = NoPath
    /\ Candidates(Ref(x).raw_path) = {}

\* C6: finalizeReferences raises DarwinException exactly when, at the call,
\* some copied file has an unresolved, unbound reference whose token's
\* basename is the source-path basename of no copied file; and in lenient
\* mode no call raises for an unresolved @rpath before that.
C6_FinalizeRaisesIffNoCandidate ==
  [][ /\ last'.op = "finalizeReferences"
         => ( last'.exc = "finalizeReferences() failed to resolve path"
              <=> Unrecoverable )
      /\ ~strict => last'.exc # "resolveRPath() failed to resolve path" ]_vars

\* finalizeReferences has just raised, in lenient mode, for a copied file
\* constructed with an @rpath reference that did not resolve
C6_Witness ==
  /\ last.op = "finalizeReferences"
  /\ last.exc = "finalizeReferences() failed to resolve path"
  /\ ~strict
  /\ \E x \in CopiedRefs :
       /\ isRPath(Ref(x).raw_path)
       /\ Ref(x).resolved_path = NoPath
       /\ Candidates(Ref(x).raw_path) = {}

\* C7: finalizeReferences binds an unresolved, unbound reference of a copied
\* file to the first file of the copied-file list whose source path has the
\* basename of the raw token, and sets resolved_path to that file's source
\* path (every such reference when the call returns; when it raises, those
\* it reached).
C7_GuessIsFirstInInsertionOrder ==
  [][ last'.op = "finalizeReferences"
      => \A x \in CopiedRefs :
           ( ~Ref(x).is_copied /\ Ref(x).resolved_path = NoPath )
           => LET after == files'[x[1]].machOReferenceForTargetPath[x[2]]
              IN \/ /\ Candidates(Ref(x).raw_path) # {}
                    /\ after.is_copied
                    /\ after.target_file = FirstCandidate(Ref(x).raw_path)
                    /\ after.resolved_path =
                         files[FirstCandidate(Ref(x).raw_path)].path
                    /\ after.raw_path = Ref(x).raw_path
                 \/ /\ last'.exc # "none"
                    /\ after = Ref(x) ]_vars

\* finalizeReferences has bound by guessing a reference that had two
\* candidates, to the one recorded first
C7_Witness ==
  /\ last.op = "finalizeReferences"
  /\ last.exc = "none"
  /\ \E x \in last.bound :
       /\ isRPath(Ref(x).raw_path)
       /\ Cardinality(Candidates(Ref(x).raw_path)) > 1
       /\ Ref(x).target_file = FirstCandidate(Ref(x).raw_path)
       /\ Ref(x).resolved_path = files[Ref(x).target_file].path
       /\ \E k \in Candidates(Ref(x).raw_path) :
            files[copied_file_list[k]].path # Ref(x).resolved_path

\* C8: finalizeReferences binds a resolved, unbound reference of a copied
\* file to the file the source-path index holds for the canonicalized
\* resolved_path when the index has that path, and otherwise leaves it
\* external: not copied, no target, resolved_path as it was (every such
\* reference when the call returns; when it raises, those it reached).
C8_ResolvedBoundIffIndexed ==
  [][ last'.op = "finalizeReferences"
      => \A x \in CopiedRefs :
           ( ~Ref(x).is_copied /\ Ref(x).resolved_path # NoPath )
           => LET after == files'[x[1]].machOReferenceForTargetPath[x[2]]
                  target_path == Resolve(Ref(x).resolved_path)
              IN /\ after.resolved_path = Ref(x).resolved_path
                 /\ \/ /\ target_path \in DOMAIN darwin_file_for_source_path
                       /\ after.is_copied
                       /\ after.target_file =
                            darwin_file_for_source_path[target_path]
                    \/ /\ target_path \notin DOMAIN darwin_file_for_source_path
                       /\ ~after.is_copied
                       /\ after.target_file = NoFile
                    \/ /\ last'.exc # "none"
                       /\ after = Ref(x) ]_vars

\* finalizeReferences returned after binding a reference resolved to a
\* symbolic link to the file indexed under the link's target, and leaving
\* another resolved reference external
C8_Witness ==
  /\ last.op = "finalizeReferences"
  /\ last.exc = "none"
  /\ \E x \in last.bound :
       /\ IsLink(Ref(x).resolved_path)
       /\ Ref(x).target_file =
            darwin_file_for_source_path[Resolve(Ref(x).resolved_path)]
  /\ \E y \in CopiedRefs :
       /\ ~Ref(y).is_copied
       /\ Ref(y).target_file = NoFile
       /\ Ref(y).resolved_path # NoPath
       /\ Resolve(Ref(y).resolved_path) \notin
            DOMAIN darwin_file_for_source_path

\* C9 as stated: in every state, after any sequence of constructions, calls
\* of setTargetFile and runs of finalizeReferences, a reference with
\* is_copied set has a target file and a resolved_path.
C9_CopiedHasTargetAndPath ==
  \A n \in 1..Len(files) :
    \A i \in 1..Len(files[n].machOReferenceForTargetPath) :
      files[n].machOReferenceForTargetPath[i].is_copied
      => /\ files[n].machOReferenceForTargetPath[i].target_file # NoFile
         /\ files[n].machOReferenceForTargetPath[i].resolved_path # NoPath

\* the references (file, position) marked copied that have no resolved_path
CopiedWithoutPath ==
  { x \in (1..Len(files)) \X (1..MaxRefs) :
      /\ x[2] <= Len(files[x[1]].machOReferenceForTargetPath)
      /\ Ref(x).is_copied
      /\ Ref(x).resolved_path = NoPath }

\* C9: in every state a reference with is_copied set has a target file.
\* It has a resolved_path too unless setTargetFile was called on it while
\* it was unresolved: only such a call marks a reference copied without a
\* resolved_path (a construction and a run of finalizeReferences never do),
\* and no later call gives that reference a resolved_path.
C9_CopiedHasTargetAndPathUnlessSetUnresolved ==
  /\ [](\A n \in 1..Len(files) :
          \A i \in 1..Len(files[n].machOReferenceForTargetPath) :
             files[n].machOReferenceForTargetPath[i].is_copied
             => files[n].machOReferenceForTargetPath[i].target_file # NoFile)
  /\ [][ /\ \A x \in CopiedWithoutPath' \ CopiedWithoutPath :
               /\ last'.op = "setTargetFile"
               /\ x[1] <= Len(files)
               /\ x[2] <= Len(files[x[1]].machOReferenceForTargetPath)
               /\ ~Ref(x).is_copied
               /\ Ref(x).resolved_path = NoPath
          /\ CopiedWithoutPath \subseteq CopiedWithoutPath' ]_vars

\* a run of finalizeReferences bound a resolved reference and skipped a
\* reference of the same file that setTargetFile had marked copied while it
\* was unresolved
C9_Witness ==
  /\ last.op = "finalizeReferences"
  /\ last.exc = "none"
  /\ \E x \in last.bound, y \in CopiedWithoutPath :
       /\ x[1] = y[1]
       /\ Ref(x).is_copied /\ Ref(x).resolved_path # NoPath
       /\ Ref(y).target_file # NoFile

\* C10 as claimed: the source path of the target of a reference bound by
\* finalizeReferences is the reference's resolved_path or has its basename.
C10_TargetNamedAsResolvedPath ==
  last.op = "finalizeReferences"
  => \A x \in last.bound :
       \/ files[Ref(x).target_file].path = Ref(x).resolved_path
       \/ Name(files[Ref(x).target_file].path) = Name(Ref(x).resolved_path)

\* C10 (amended): the source path of the target of a reference bound by
\* finalizeReferences is the canonicalized resolved_path of the reference;
\* it is resolved_path itself, or has its basename, unless resolved_path is
\* a symbolic link to a file of another name.
C10_TargetIsCanonicalResolvedPath ==
  last.op = "finalizeReferences"
  => \A x \in last.bound :
       /\ Ref(x).target_file # NoFile
       /\ files[Ref(x).target_file].path = Resolve(Ref(x).resolved_path)
       /\ ( Name(Resolve(Ref(x).resolved_path)) = Name(Ref(x).resolved_path)
            => Name(files[Ref(x).target_file].path) =
                 Name(Ref(x).resolved_path) )
       /\ ( ( IsLink(Ref(x).resolved_path)
              /\ Name(Resolve(Ref(x).resolved_path)) #
                   Name(Ref(x).resolved_path) )
            => /\ files[Ref(x).target_file].path # Ref(x).resolved_path
               /\ Name(files[Ref(x).target_file].path) #
                    Name(Ref(x).resolved_path) )

\* finalizeReferences has bound a reference whose resolved_path is a
\* symbolic link to a file of another name, and one whose resolved_path is
\* the path of its target
C10_Witness ==
  /\ last.op = "finalizeReferences"
  /\ \E x, y \in last.bound :
       /\ IsLink(Ref(x).resolved_path)
       /\ Name(files[Ref(x).target_file].path) # Name(Ref(x).resolved_path)
       /\ files[Ref(x).target_file].path = Resolve(Ref(x).resolved_path)
       /\ files[Ref(y).target_file].path = Ref(y).resolved_path


(***************************************************************************)
(* The resolver.  A second driver constructs files from a wider set of     *)
(* sources, each as a root or with a file that depends on it as its        *)
(* referrer, asks files for their rpath, records files and finalizes.      *)
(***************************************************************************)
\* darwin_file.getRPath()
GetRPath(darwin_file) ==
  /\ LET g == getRPath(files, darwin_file)
     IN /\ files' = g.files
        /\ last' = [NoCall EXCEPT !.op = "getRPath", !.file = darwin_file,
                      !.dirs = g.rpath]
  /\ UNCHANGED << copied_file_list, darwin_file_for_build_path,
                  darwin_file_for_source_path, strict, host >>

\* paths the second driver constructs files from
ResolveSourcePaths ==
  { <<"/", "app", "main">>,
    <<"/", "app", "data.txt">>,
    <<"/", "app", "lib", "libB.dylib">>,
    <<"/", "opt", "libD.dylib">> }

\* paths in the build directory the second driver copies to, in the order
\* it uses them: each copy goes to a fresh path
ResolveTargetPaths ==
  << <<"/", "build", "lib", "one.dylib">>,
     <<"/", "build", "lib", "two.dylib">> >>

\* a file is constructed as a root, or for a dependency of its referrer
ReferredFrom(path, referencing_file) ==
  IF referencing_file = NoFile THEN TRUE
  ELSE \E dependent \in getDependentFilePaths(files[referencing_file]) :
          Resolve(dependent) = Resolve(path)

NextResolve ==
  \/ /\ Running
     /\ \E path \in ResolveSourcePaths, referencing_file \in 0..Len(files) :
          /\ ReferredFrom(path, referencing_file)
          /\ NewDarwinFile(path, referencing_file)
  \/ /\ Running
     /\ \E darwin_file \in 1..Len(files) : GetRPath(darwin_file)
  \/ /\ Running
     /\ Len(copied_file_list) < Len(ResolveTargetPaths)
     /\ \E darwin_file \in Pending :
          RecordCopiedFile(ResolveTargetPaths[Len(copied_file_list) + 1],
                           darwin_file)
  \/ /\ Running
     /\ FinalizeReferences

SpecResolve == Init /\ [][NextResolve]_vars

(***************************************************************************)
(* Properties of the resolver                                              *)
(***************************************************************************)
Range(seq) == { seq[i] : i \in 1..Len(seq) }

\* the last call constructed, or failed to construct, a file from a Mach-O
\* path
ConstructedMachO == last.op = "DarwinFile" /\ isMachOFile(Resolve(last.source_path))

\* the file the last construction was asked for, before anything is read
Asked == [ path |-> Resolve(last.source_path), isMachO |-> TRUE ]

\* the search path in effect for the file the last construction was asked
\* for: the referrer's, then the file's own entries
AskedSearchPath ==
  (IF last.file # NoFile THEN files[last.file].rpath.dirs ELSE <<>>)
    \o OwnRPath(Asked, rpathCommands(Asked))

\* the candidate of an @rpath token in a directory
Candidate(dir, tok) == dir \o Tail(tok)

\* the @rpath tokens of the file asked for that match no Mach-O candidate
Unmatched ==
  { tok \in Range(loadCommands(Asked)) :
      /\ isRPath(tok)
      /\ \A i \in 1..Len(AskedSearchPath) :
           ~isMachOFile(Candidate(AskedSearchPath[i], tok)) }

\* the references of file n made from raw token tok
RefsOf(n, tok) ==
  { i \in 1..Len(files[n].machOReferenceForTargetPath) :
      files[n].machOReferenceForTargetPath[i].raw_path = tok }

\* C11: when an @rpath token of a file matches no Mach-O candidate in the
\* file's search path, a strict construction raises DarwinException and
\* creates no file; a lenient one does not raise for it and creates the
\* reference of that token unresolved.
C11_UnmatchedRPathToken ==
  (ConstructedMachO /\ Unmatched # {}) =>
     IF strict
     THEN /\ last.exc = "resolveRPath() failed to resolve path"
          /\ last.ret = NoFile
     ELSE /\ last.exc = "none"
          /\ \A tok \in Unmatched :
               /\ RefsOf(last.ret, tok) # {}
               /\ \A i \in RefsOf(last.ret, tok) :
                    files[last.ret].machOReferenceForTargetPath[i]
                       .resolved_path = NoPath

\* a lenient construction under a non-empty search path left a reference
\* unresolved
C11_Witness ==
  /\ ConstructedMachO
  /\ ~strict
  /\ Unmatched # {}
  /\ AskedSearchPath # <<>>
  /\ last.exc = "none"

\* the positions of the directories of file n's search path whose candidate
\* for tok exists and is a Mach-O file
Matching(n, tok) ==
  { k \in 1..Len(files[n].rpath.dirs) :
      /\ Exists(Candidate(files[n].rpath.dirs[k], tok))
      /\ isMachOFile(Candidate(files[n].rpath.dirs[k], tok)) }

FirstOf(S) == CHOOSE k \in S : \A j \in S : k <= j

\* the references of file n made from an @rpath token that has a matching
\* directory
MatchedRefs(n) ==
  { i \in 1..Len(files[n].machOReferenceForTargetPath) :
      /\ isRPath(files[n].machOReferenceForTargetPath[i].raw_path)
      /\ Matching(n, files[n].machOReferenceForTargetPath[i].raw_path) # {} }

\* C12: an @rpath token resolves to its candidate in the first directory,
\* in search-path order, whose candidate exists and is a Mach-O file; no
\* later directory is chosen over an earlier matching one.
C12_FirstMatchingDirectory ==
  \A n \in 1..Len(files) : \A i \in MatchedRefs(n) :
     LET reference == files[n].machOReferenceForTargetPath[i]
         k == FirstOf(Matching(n, reference.raw_path))
     IN reference.resolved_path =
          Candidate(files[n].rpath.dirs[k], reference.raw_path)

\* one file has a token matched in two directories with different
\* candidates, and one has a token whose first directories do not match
C12_Witness ==
  /\ \E n \in 1..Len(files) : \E i \in MatchedRefs(n) :
       LET tok == files[n].machOReferenceForTargetPath[i].raw_path
       IN \E j, k \in Matching(n, tok) :
            Candidate(files[n].rpath.dirs[j], tok)
              # Candidate(files[n].rpath.dirs[k], tok)
  /\ \E n \in 1..Len(files) : \E i \in MatchedRefs(n) :
       FirstOf(Matching(n, files[n].machOReferenceForTargetPath[i].raw_path))
         > 1

\* the references (file, position) made from an absolute token
AbsoluteRefs ==
  { x \in (1..Len(files)) \X (1..MaxRefs) :
      /\ x[2] <= Len(files[x[1]].machOReferenceForTargetPath)
      /\ IsAbsolute(files[x[1]].machOReferenceForTargetPath[x[2]].raw_path) }

\* C13 as stated: an absolute token resolves to itself if something exists
\* at it and is left unresolved otherwise.
C13_AbsoluteTokenIfExists ==
  \A x \in AbsoluteRefs :
     Ref(x).resolved_path =
        IF Exists(Ref(x).raw_path) THEN Ref(x).raw_path ELSE NoPath

\* C13: an absolute token resolves to itself verbatim, whether or not
\* anything exists at it on the build host; it is never left unresolved
\* and never canonicalised.
C13_AbsoluteTokenVerbatim ==
  \A x \in AbsoluteRefs : Ref(x).resolved_path = Ref(x).raw_path

\* a reference made from an absolute token at which nothing exists
C13_Witness ==
  \E x \in AbsoluteRefs :
     /\ ~Exists(Ref(x).raw_path)
     /\ Ref(x).resolved_path = Ref(x).raw_path

\* what an LC_RPATH entry of file n names: itself when absolute, the
\* canonical path below the file's directory when it starts with
\* @loader_path or @executable_path, nothing otherwise
Named(n, rp) ==
  IF IsAbsolute(rp) THEN rp
  ELSE IF isLoaderPath(rp) \/ isExecutablePath(rp)
  THEN Resolve(Parent(files[n].path) \o StripPrefix(rp))
  ELSE NoPath

IsThere(d) == d # NoPath /\ Exists(d)

\* the entries file n contributes itself, in command order
OwnEntries(n) ==
  LET cmds == rpathCommands(files[n])
  IN SelectSeq([k \in 1..Len(cmds) |-> Named(n, cmds[k])], IsThere)

\* the search path of file n's referrer
ReferrerSearchPath(n) ==
  IF files[n].referencing_file # NoFile
  THEN files[files[n].referencing_file].rpath.dirs
  ELSE <<>>

MachONodes == { n \in 1..Len(files) : files[n].isMachO }

\* C14: the search path of a Mach-O file is its referrer's search path
\* followed by the file's own entries in command order; two files made from
\* the same path under referrers with the same search path have the same
\* search path, wherever they stand in the order of construction.
C14_ReferrerFirstSelfLast ==
  /\ \A n \in MachONodes :
        /\ files[n].rpath.computed
        /\ files[n].rpath.dirs = ReferrerSearchPath(n) \o OwnEntries(n)
  /\ \A n, m \in MachONodes :
        ( /\ files[n].path = files[m].path
          /\ ReferrerSearchPath(n) = ReferrerSearchPath(m) )
        => files[n].rpath.dirs = files[m].rpath.dirs

\* a file constructed after others has a referrer with a search path and
\* entries of its own, and the two do not commute; the same path was also
\* constructed earlier under a referrer with the same search path
C14_Witness ==
  \E n, m \in MachONodes :
     /\ m < n
     /\ n = 3
     /\ files[n].path = files[m].path
     /\ ReferrerSearchPath(n) # <<>>
     /\ ReferrerSearchPath(n) = ReferrerSearchPath(m)
     /\ OwnEntries(n) # <<>>
     /\ ReferrerSearchPath(n) \o OwnEntries(n)
          # OwnEntries(n) \o ReferrerSearchPath(n)

\* C15: once the search path of a file is computed it never changes,
\* whatever is constructed, recorded or finalized afterwards, and every
\* call of getRPath on the file returns that list.
C15_SearchPathFixedOnceComputed ==
  [][ /\ \A n \in 1..Len(files) :
           files[n].rpath.computed =>
              /\ n <= Len(files')
              /\ files'[n].rpath = files[n].rpath
      /\ last'.op = "getRPath" =>
           /\ files'[last'.file].rpath.computed
           /\ last'.dirs = files'[last'.file].rpath.dirs ]_vars

\* getRPath returns a non-empty list for a file constructed before others,
\* after files were recorded and a finalization bound a reference
C15_Witness ==
  /\ last.op = "getRPath"
  /\ last.dirs # <<>>
  /\ last.file < Len(files)
  /\ copied_file_list # <<>>
  /\ \E n \in 1..Len(files) :
       \E i \in 1..Len(files[n].machOReferenceForTargetPath) :
          files[n].machOReferenceForTargetPath[i].is_copied

IsDir(p) == Resolve(p) \in Dirs

\* the part of file n's search path that follows its referrer's: what the
\* file contributed from its own LC_RPATH commands
Contributed(n) ==
  SubSeq(files[n].rpath.dirs, Len(ReferrerSearchPath(n)) + 1,
         Len(files[n].rpath.dirs))

\* C16 as stated: every entry a file contributes to its search path from
\* its own LC_RPATH commands is an existing directory.
C16_OwnEntriesAreDirectories ==
  \A n \in MachONodes : \A d \in Range(Contributed(n)) : IsDir(d)

\* the file the last construction was asked for, with its search path
AskedNode ==
  [ path |-> Resolve(last.source_path), isMachO |-> TRUE, strict |-> strict,
    rpath |-> [computed |-> TRUE, dirs |-> AskedSearchPath] ]

\* its load commands, in command order, and what each resolves to
AskedLoads == loadCommands(AskedNode)
AskedResolution(k) == resolvePath(AskedNode, AskedLoads[k])
AllResolve ==
  \A k \in 1..Len(AskedLoads) : AskedResolution(k).exc = "none"

\* the key of the reference of load command k: what the command resolves
\* to, the raw token when it is left unresolved
AskedKey(k) ==
  IF AskedResolution(k).path = NoPath THEN AskedLoads[k]
  ELSE AskedResolution(k).path

\* C17 as stated: construction raises when two load commands resolve to the
\* same path, and otherwise gives every load command a reference of its own.
C17_CollisionIffSamePath ==
  (ConstructedMachO /\ AllResolve) =>
     IF \E j, k \in 1..Len(AskedLoads) :
           /\ j < k
           /\ AskedResolution(j).path # NoPath
           /\ AskedResolution(j).path = AskedResolution(k).path
     THEN last.exc = "Multiple dynamic libraries resolved to the same file."
     ELSE /\ last.exc = "none"
          /\ Len(files[last.ret].machOReferenceForTargetPath)
               = Len(AskedLoads)

\* C17: when every load command resolves without error, construction
\* raises exactly when two load commands with different raw tokens get the
\* same key; otherwise it creates one reference for each distinct raw
\* token, so that load commands repeating a token share one reference.
C17_CollisionIffDistinctTokensShareKey ==
  (ConstructedMachO /\ AllResolve) =>
     IF \E j, k \in 1..Len(AskedLoads) :
           AskedLoads[j] # AskedLoads[k] /\ AskedKey(j) = AskedKey(k)
     THEN /\ last.exc = "Multiple dynamic libraries resolved to the same file."
          /\ last.ret = NoFile
     ELSE /\ last.exc = "none"
          /\ Len(files[last.ret].machOReferenceForTargetPath)
               = Cardinality(Range(AskedLoads))
          /\ \A k \in 1..Len(AskedLoads) :
               \E i \in RefsOf(last.ret, AskedLoads[k]) :
                  files[last.ret].machOReferenceForTargetPath[i].key
                     = AskedKey(k)

\* a file with a repeated load command was constructed: it has fewer
\* references than load commands
C17_Witness ==
  /\ ConstructedMachO
  /\ last.exc = "none"
  /\ Len(files[last.ret].machOReferenceForTargetPath) < Len(AskedLoads)
  /\ Len(files[last.ret].machOReferenceForTargetPath) > 1

(***************************************************************************)
(* The rewriter and the signer.  Each runs an external tool on the copied  *)
(* file; a run of a tool ends in one of three ways: exit status 0, a       *)
(* non-zero exit status, or the tool cannot be started (subprocess.call    *)
(* raises OSError).                                                        *)
(***************************************************************************)
Outcomes == { "ok", "nonzero", "oserror" }

\* Bound on the inodes the copied file goes through.
MaxInode == 3

\* stat.S_IWUSR
S_IWUSR == 128

\* original | stat.S_IWUSR on permission bits
BitOr(mode, bit) == IF (mode \div bit) % 2 = 1 THEN mode ELSE mode + bit

\* the permission bits a copied file may have: 0o444, 0o555, 0o644, 0o755
Modes == { 292, 365, 420, 493 }

\* the load references the rewriter is asked to change from and to
References ==
  { "@rpath/libC.dylib", "/opt/libC.dylib", "@loader_path/lib/libC.dylib" }

\* changeLoadReference(fileName, oldReference, newReference) on host h, when
\* the run of install_name_tool ends in `outcome`: [exc, host, tools, seen];
\* `seen` is the mode of the file when the tool ran
changeLoadReference(h, oldReference, newReference, outcome) ==
  LET original == h.mode
      newMode == BitOr(original, S_IWUSR)
      writable == [h EXCEPT !.mode = newMode]
      rewritten ==
        IF outcome = "ok" /\ h.reference = oldReference
        THEN [writable EXCEPT !.reference = newReference, !.signed = FALSE]
        ELSE writable
  IN IF outcome = "oserror"
     THEN [exc |-> "OSError", host |-> writable,
           tools |-> <<outcome>>, seen |-> <<newMode>>]
     ELSE [exc |-> "none", host |-> [rewritten EXCEPT !.mode = original],
           tools |-> <<outcome>>, seen |-> <<newMode>>]

\* where tempfile.TemporaryDirectory() makes the directory of the workaround:
\* on the file system of the copied file, or on another one
TempDirs == { "same_fs", "other_fs" }

\* the user the freeze runs as: root, or the owner of the copied file
Users == { "root", "owner" }

\* the user may open a file of this mode for writing
mayWrite(mode, user) == user = "root" \/ BitOr(mode, S_IWUSR) = mode

\* applyAdHocSignature(fileName) on host h, when the first run of codesign
\* ends in `first` and the run after the workaround in `second`, with the
\* temporary directory on `tempdir` and the call made by `user`:
\* [exc, host, tools].  shutil.move renames the copy over the file when both
\* are on one file system (the file gets the inode of the copy); otherwise
\* os.rename fails and shutil.move copies into the existing file, which keeps
\* its inode and must be writable by the user.
applyAdHocSignature(h, first, second, tempdir, user) ==
  IF h.machine # "arm64"
  THEN [exc |-> "none", host |-> h, tools |-> <<>>]
  ELSE IF first = "oserror"
  THEN [exc |-> "OSError", host |-> h, tools |-> <<first>>]
  ELSE IF first = "ok"
  THEN [exc |-> "none", host |-> [h EXCEPT !.signed = TRUE],
        tools |-> <<first>>]
  ELSE IF tempdir = "other_fs" /\ ~mayWrite(h.mode, user)
  THEN [exc |-> "PermissionError", host |-> h, tools |-> <<first>>]
  ELSE LET moved == IF tempdir = "same_fs"
                    THEN [h EXCEPT !.inode = @ + 1]
                    ELSE h
       IN IF second = "oserror"
          THEN [exc |-> "OSError", host |-> moved, tools |-> <<first, second>>]
          ELSE IF second = "ok"
          THEN [exc |-> "none", host |-> [moved EXCEPT !.signed = TRUE],
                tools |-> <<first, second>>]
          ELSE [exc |-> "none", host |-> moved, tools |-> <<first, second>>]

ChangeLoadReference(oldReference, newReference, outcome) ==
  /\ LET r == changeLoadReference(host, oldReference, newReference, outcome)
     IN /\ host' = r.host
        /\ last' = [NoCall EXCEPT !.op = "changeLoadReference", !.exc = r.exc,
                      !.tools = r.tools, !.seen = r.seen]
  /\ UNCHANGED << files, copied_file_list, darwin_file_for_build_path,
                  darwin_file_for_source_path, strict >>

ApplyAdHocSignature(first, second, tempdir, user) ==
  /\ host.inode < MaxInode
  /\ LET r == applyAdHocSignature(host, first, second, tempdir, user)
     IN /\ host' = r.host
        /\ last' = [NoCall EXCEPT !.op = "applyAdHocSignature", !.exc = r.exc,
                      !.tools = r.tools]
  /\ UNCHANGED << files, copied_file_list, darwin_file_for_build_path,
                  darwin_file_for_source_path, strict >>

InitTools ==
  /\ files = <<>>
  /\ copied_file_list = <<>>
  /\ darwin_file_for_build_path = <<>>
  /\ darwin_file_for_source_path = <<>>
  /\ strict = FALSE
  /\ host \in [ machine : {"arm64", "x86_64"}, mode : Modes, inode : {1},
                 signed : {FALSE}, reference : {"@rpath/libC.dylib"} ]
  /\ last = NoCall

NextTools ==
  \/ /\ Running
     /\ \E oldReference \in References, newReference \in References,
           outcome \in Outcomes :
          ChangeLoadReference(oldReference, newReference, outcome)
  \/ /\ Running
     /\ \E first \in Outcomes, second \in Outcomes,
           tempdir \in TempDirs, user \in Users :
          ApplyAdHocSignature(first, second, tempdir, user)

SpecTools == InitTools /\ [][NextTools]_vars

(***************************************************************************)
(* Properties of the rewriter and the signer                               *)
(***************************************************************************)
\* C18 as stated: on an arm64 host, when the first run of codesign fails
\* and the run after the workaround fails too, applyAdHocSignature raises.
C18_SecondSigningFailureIsFatal ==
  ( /\ last.op = "applyAdHocSignature"
    /\ host.machine = "arm64"
    /\ Len(last.tools) = 2
    /\ last.tools[1] # "ok"
    /\ last.tools[2] # "ok" )
  => last.exc # "none"

\* C19 as stated: when install_name_tool exits with a non-zero status,
\* changeLoadReference raises.
C19_NonZeroRewriteIsFatal ==
  (last.op = "changeLoadReference" /\ last.tools = <<"nonzero">>)
  => last.exc # "none"

\* C20 as stated: the file is user-writable when install_name_tool runs,
\* and however the run ends the call leaves the file with the mode it had
\* before the call.
C20_ModeRestoredOnEveryExit ==
  [][ last'.op = "changeLoadReference" =>
        /\ \A k \in 1..Len(last'.seen) :
              BitOr(last'.seen[k], S_IWUSR) = last'.seen[k]
        /\ host'.mode = host.mode ]_vars

(***************************************************************************)
(* Properties of the references over a freeze                              *)
(***************************************************************************)
\* every reference (file, position) of the heap
AllRefs ==
  { x \in (1..Len(files)) \X (1..MaxRefs) :
      x[2] <= Len(files[x[1]].machOReferenceForTargetPath) }

\* C21 as stated: every reference is stored under its resolved path when it
\* is resolved and under its raw token otherwise, so that
\* getMachOReferenceForPath finds a resolved reference by its resolved_path.
C21_StoredUnderResolvedPath ==
  \A x \in AllRefs :
     /\ Ref(x).key = IF isResolved(Ref(x)) THEN Ref(x).resolved_path
                     ELSE Ref(x).raw_path
     /\ isResolved(Ref(x)) =>
          getMachOReferenceForPath(files[x[1]], Ref(x).resolved_path) = x[2]

\* reference x keeps what it has: a resolved_path once set stays as it is,
\* a target once bound stays bound to the same file
KeepsState(x) ==
  LET before == Ref(x)
      after == files'[x[1]].machOReferenceForTargetPath[x[2]]
  IN /\ x[1] <= Len(files')
     /\ x[2] <= Len(files'[x[1]].machOReferenceForTargetPath)
     /\ after.raw_path = before.raw_path
     /\ isResolved(before) => after.resolved_path = before.resolved_path
     /\ before.is_copied =>
          after.is_copied /\ after.target_file = before.target_file
     /\ before.target_file # NoFile => after.target_file = before.target_file

\* C22: across the construction of files, recordCopiedFile, getDarwinFile
\* and any number of runs of finalizeReferences, raising ones included, a
\* reference only moves forward: its resolved_path, once set, is never
\* cleared or changed, and its is_copied and target file, once set, are
\* never cleared or bound to another file.
C22_ReferencesOnlyMoveForward ==
  [][ last'.op # "setTargetFile" => \A x \in AllRefs : KeepsState(x) ]_vars

\* a run of finalizeReferences bound references while others were bound
\* already, one of them by recovery from an unresolved token
C22_Witness ==
  /\ last.op = "finalizeReferences"
  /\ last.bound # {}
  /\ \E x \in AllRefs \ last.bound :
       /\ Ref(x).is_copied
       /\ ~isRPath(Ref(x).raw_path)
  /\ \E y \in AllRefs :
       /\ Ref(y).is_copied
       /\ isRPath(Ref(y).raw_path)
       /\ Ref(y).key = Ref(y).raw_path

\* nothing is left for finalizeReferences to do: every reference of every
\* copied file is bound, or resolved to a path that was not copied
Finalized ==
  \A x \in CopiedRefs :
     \/ Ref(x).is_copied
     \/ /\ isResolved(Ref(x))
        /\ Resolve(Ref(x).resolved_path)
             \notin DOMAIN darwin_file_for_source_path

\* C23: a run of finalizeReferences that raises nothing leaves nothing to
\* do; that stays so until a file is recorded; and a run of
\* finalizeReferences that finds nothing to do raises nothing, warns of
\* nothing and changes no reference and no index of the tracker.
C23_FinalizeIdempotent ==
  [][ /\ (last'.op = "finalizeReferences" /\ last'.exc = "none")
           => Finalized'
      /\ (Finalized /\ last'.op # "recordCopiedFile") => Finalized'
      /\ (Finalized /\ last'.op = "finalizeReferences") =>
           /\ last'.exc = "none"
           /\ ~last'.warned
           /\ last'.bound = {}
           /\ files' = files
           /\ TrackerUnchanged ]_vars

\* a run of finalizeReferences that bound nothing, after a run that bound a
\* reference by recovery from an unresolved token
C23_Witness ==
  /\ last.op = "finalizeReferences"
  /\ last.exc = "none"
  /\ last.bound = {}
  /\ \E x \in CopiedRefs :
       /\ Ref(x).is_copied
       /\ isResolved(Ref(x))
       /\ Ref(x).key = Ref(x).raw_path
       /\ isRPath(Ref(x).raw_path)

(***************************************************************************)
(* Properties of the copied-file list                                      *)
(***************************************************************************)
\* how often file n is in the copied-file list, and under how many copied
\* paths the build-path index has it
TimesListed(n) ==
  Cardinality({ k \in 1..Len(copied_file_list) : copied_file_list[k] = n })
TimesIndexed(n) ==
  Cardinality({ t \in DOMAIN darwin_file_for_build_path :
                  darwin_file_for_build_path[t] = n })

ListMatchesIndex ==
  /\ Len(copied_file_list) = Cardinality(DOMAIN darwin_file_for_build_path)
  /\ \A n \in 1..Len(files) : TimesListed(n) = TimesIndexed(n)
  /\ \A k \in 1..Len(copied_file_list) :
       copied_file_list[k] \in 1..Len(files)

\* C24: the copied-file list always has one entry for each key of the
\* build-path index and holds exactly the files the index maps to; a call
\* of recordCopiedFile that raises leaves the list and both indexes as they
\* were.
C24_ListMatchesIndex ==
  /\ []ListMatchesIndex
  /\ [][ (last'.op = "recordCopiedFile" /\ last'.exc # "none")
           => TrackerUnchanged ]_vars

\* a call of recordCopiedFile raised after one file was recorded under two
\* copied paths
C24_Witness ==
  /\ last.op = "recordCopiedFile"
  /\ last.exc # "none"
  /\ Len(copied_file_list) = 2
  /\ \E n \in 1..Len(files) : TimesListed(n) = 2 /\ TimesIndexed(n) = 2

(***************************************************************************)
(* A third driver, for the copy records: it goes on after a call of        *)
(* recordCopiedFile that raised, and records any file under any path, a    *)
(* file already recorded included.                                         *)
(***************************************************************************)
RecordSourcePaths ==
  { <<"/", "opt", "libC.dylib">>,
    <<"/", "opt", "libfoo.dylib">> }

NextRecord ==
  \/ /\ last.exc = "none" \/ last.op = "recordCopiedFile"
     /\ \E path \in RecordSourcePaths : NewDarwinFile(path, NoFile)
  \/ /\ last.exc = "none" \/ last.op = "recordCopiedFile"
     /\ \E target_path \in TargetPaths, darwin_file \in 1..Len(files) :
          RecordCopiedFile(target_path, darwin_file)

SpecRecord == Init /\ [][NextRecord]_vars

(***************************************************************************)
(* A fourth driver, for the binding of references: it calls setTargetFile  *)
(* on any reference of any file, resolved or not, with any file as the     *)
(* target.  It constructs a file only while it has a build path left to    *)
(* copy it to.                                                             *)
(***************************************************************************)
BindSourcePaths ==
  { <<"/", "app", "lib", "libB.dylib">>,
    <<"/", "opt", "libC.dylib">>,
    <<"/", "opt", "libfoo.dylib">> }

\* paths in the build directory the fourth driver copies to, in the order
\* it uses them
BindTargetPaths ==
  << <<"/", "build", "main">>,
     <<"/", "build", "lib", "one.dylib">>,
     <<"/", "build", "lib", "two.dylib">> >>

NextBind ==
  \/ /\ Running
     /\ Pending = {}
     /\ Len(copied_file_list) < Len(BindTargetPaths)
     /\ \E path \in BindSourcePaths : NewDarwinFile(path, NoFile)
  \/ /\ Running
     /\ Len(copied_file_list) < Len(BindTargetPaths)
     /\ \E darwin_file \in Pending :
          RecordCopiedFile(BindTargetPaths[Len(copied_file_list) + 1],
                           darwin_file)
  \/ /\ Running
     /\ \E source_file \in 1..Len(files), darwin_file \in 1..Len(files) :
          \E i \in 1..Len(files[source_file].machOReferenceForTargetPath) :
             SetTargetFile(source_file,
                           files[source_file].machOReferenceForTargetPath[i].key,
                           darwin_file)
  \/ /\ Running
     /\ FinalizeReferences

SpecBind == Init /\ [][NextBind]_vars

====
